---- MODULE Spec2Model ----
(***************************************************************************)
(* Model of go-workflows: the Redis backend's instance operations          *)
(* (src/unnamed/part_000 lines 1-141), the client's wait/result operations *)
(* (lines 143-393) and the ScheduleActivity command (lines 395-449).       *)
(***************************************************************************)
EXTENDS Integers, Sequences, FiniteSets, TLC

\* ------------------------------------------------------------------ bounds
NumCallers == 2
NumInstances == 1
MaxClock == 1

Callers == 1..NumCallers
InstanceIDs == 1..NumInstances

\* ------------------------------------------------------- backend: values
WorkflowStateActive == "Active"
WorkflowStateFinished == "Finished"
WorkflowStateContinuedAsNew == "ContinuedAsNew"

ErrNil == "nil"
ErrAlreadyExists == "workflow instance already exists"
ErrRedisNil == "could not read instance"
ErrTaskAlreadyInQueue == "task already in queue"

\* json.Marshal / json.Unmarshal of a value: the stored form is the JSON text,
\* kept distinct from the value it encodes.
Marshal(v) == [json |-> v]
Unmarshal(s) == s.json

\* The instanceState record createInstance stores for a new instance.
NewInstanceState(instance, createdAt) ==
    [instance |-> instance, state |-> WorkflowStateActive,
     created_at |-> createdAt, completed_at |-> -1]

\* The WorkflowExecutionStarted event the client builds for a call.
StartedEvent(c, id, t) ==
    [type |-> "WorkflowExecutionStarted", instance_id |-> id,
     execution_id |-> c, timestamp |-> t]

\* Time on the client's backoff clock is counted in microseconds.
InitialInterval == 1000
MaxInterval == 1000000
MultiplierNum == 3
MultiplierDen == 2
RandomizationNum == 1
RandomizationDen == 2
DefaultTimeout == 20000000

VARIABLES
    instanceKey,     \* Redis: instanceKey(id) -> {} (absent) or {stored JSON}
    pendingEvents,   \* Redis stream pendingEventsKey(id)
    historyStream,   \* Redis stream historyKey(id)
    appended,        \* the events committed per instance, in the order they were appended
    workflowQueue,   \* rb.workflowQueue: the number of queued tasks per instance id
    task,            \* in-flight workflow task per instance: pending events it took, -1 if none
    tasksTaken,      \* number of workflow tasks dequeued so far per instance
    call,            \* each CreateWorkflowInstance call: position, arguments, result
    cancelCall,      \* the outcome of the last CancelWorkflowInstance call
    now              \* wall clock

backendVars == <<instanceKey, pendingEvents, historyStream, appended, workflowQueue,
                 task, tasksTaken, call, cancelCall, now>>

VARIABLES
    commands,    \* each command object, by id: {} until it is constructed
    execCalls,   \* Execute calls made on each command so far
    emitted,     \* events the Execute calls on each command have returned so far
    lastOp       \* the last command operation: its kind, command, prior state, result

commandVars == <<commands, execCalls, emitted, lastOp>>

VARIABLES
    wpc,              \* WaitForWorkflowInstance: "idle", "tick", "backoff", "sleep", "done"
    wInstance,        \* the instance waited for
    wArg,             \* the timeout argument
    wTimeout,         \* b.MaxElapsedTime
    currentInterval,  \* b.currentInterval
    elapsed,          \* b.GetElapsedTime(): clock time since b.Reset()
    nextWait,         \* the interval NextBackOff returned last
    waitBase,         \* b.currentInterval when that interval was drawn
    polls,            \* polls of GetWorkflowInstanceState made so far
    lastPoll,         \* what the last poll returned: {} before the first
    seen,             \* the states the polls returned without error
    draws,            \* random draws made so far
    lastDraw,         \* the last random draw
    wResult           \* the call's result

waitVars == <<wpc, wInstance, wArg, wTimeout, currentInterval, elapsed, nextWait,
              waitBase, polls, lastPoll, seen, draws, lastDraw, wResult>>

VARIABLES
    rpc,         \* GetWorkflowResult: "idle", "scan", "done"
    rInstance,   \* the instance asked about
    rHistory,    \* h, the history it read
    rIter,       \* iterations of its loop completed
    rOutcome     \* what it returned

resultVars == <<rpc, rInstance, rHistory, rIter, rOutcome>>

VARIABLES
    sigCall,      \* the last client SignalWorkflow call: arguments, backend error, result
    signalsSent   \* SignalWorkflow calls made so far

signalVars == <<sigCall, signalsSent>>

\* ------------------------------------------------- backend: Redis commands
\* SETNX key value: stores only when the key is absent; ok tells whether it stored.
SetNXAlways(store, key, val) ==
    [ok |-> TRUE, store |-> [store EXCEPT ![key] = {val}]]

SetNXOverwrite(store, key, val) ==
    [ok |-> store[key] = {}, store |-> [store EXCEPT ![key] = {val}]]

SetNX(store, key, val) ==
    IF store[key] = {}
    THEN [ok |-> TRUE, store |-> [store EXCEPT ![key] = {val}]]
    ELSE [ok |-> FALSE, store |-> store]

\* XADD stream * event <data>: appends one entry to the stream.
XAddNothing(streams, key, data) == streams

XAdd(streams, key, data) == [streams EXCEPT ![key] = Append(@, data)]

\* taskqueue.Enqueue: adds a task for the id unless one is already queued.
Enqueue(queue, id) ==
    IF queue[id] > 0
    THEN [err |-> ErrTaskAlreadyInQueue, queue |-> queue]
    ELSE [err |-> ErrNil, queue |-> [queue EXCEPT ![id] = @ + 1]]

\* CreateWorkflowInstance's result for the error Enqueue returned.
enqueueResultStrict(err) ==
    IF err # ErrNil THEN "could not queue workflow task" ELSE "ok"

enqueueResult(err) ==
    IF err # ErrNil /\ err # ErrTaskAlreadyInQueue
    THEN "could not queue workflow task"
    ELSE "ok"

\* The ignoreDuplicate argument CreateWorkflowInstance passes to createInstance.
IgnoreDuplicateTrue == TRUE

IgnoreDuplicate == FALSE

\* createInstance's decision after SETNX replied ok.
createInstanceResult(ok, ignoreDuplicate) ==
    IF ~ignoreDuplicate /\ ~ok THEN ErrAlreadyExists ELSE ErrNil

\* readInstance: GET and unmarshal; a missing key is an error.
readInstanceZero(id) ==
    IF instanceKey[id] = {}
    THEN [found |-> FALSE, err |-> ErrNil, state |-> [state |-> WorkflowStateActive]]
    ELSE [found |-> TRUE, err |-> ErrNil,
          state |-> Unmarshal(CHOOSE s \in instanceKey[id] : TRUE)]

readInstance(id) ==
    IF instanceKey[id] = {}
    THEN [found |-> FALSE, err |-> ErrRedisNil]
    ELSE [found |-> TRUE, err |-> ErrNil,
          state |-> Unmarshal(CHOOSE s \in instanceKey[id] : TRUE)]

\* GetWorkflowInstanceState: Active together with the error when the read fails.
GetWorkflowInstanceState(id) ==
    LET r == readInstance(id) IN
    IF r.err # ErrNil
    THEN [state |-> WorkflowStateActive, err |-> r.err]
    ELSE [state |-> r.state.state, err |-> ErrNil]

GetWorkflowInstanceHistoryRev(id) ==
    [i \in 1..Len(historyStream[id]) |->
        Unmarshal(historyStream[id][Len(historyStream[id]) + 1 - i])]

\* GetWorkflowInstanceHistory: XRANGE historyKey - +, each entry unmarshalled in order.
GetWorkflowInstanceHistory(id) ==
    [i \in 1..Len(historyStream[id]) |-> Unmarshal(historyStream[id][i])]

\* ------------------------------------------ backend: CreateWorkflowInstance
\* found: what the key held when SETNX ran; overlapped: whether another call for
\* the same instance was in flight during this one; enqErr: what Enqueue returned.
Idle == [pc |-> "idle", id |-> 0, b |-> Marshal(0), event |-> Marshal(0),
         ok |-> FALSE, found |-> "none", overlapped |-> FALSE, enqErr |-> "none",
         result |-> "none"]

InFlight(c) == call[c].pc \notin {"idle", "done"}

\* What the instance key holds: "absent", or the stored state.
KeyHolds(id) ==
    IF instanceKey[id] = {} THEN "absent"
    ELSE Unmarshal(CHOOSE s \in instanceKey[id] : TRUE).state

\* The client builds the start event, and createInstance marshals the new
\* instanceState with time.Now() before it talks to Redis.
CreateBegin(c, id) ==
    /\ call[c].pc = "idle"
    /\ LET others == {d \in Callers \ {c} : InFlight(d) /\ call[d].id = id} IN
       call' = [d \in Callers |->
                  IF d = c
                  THEN [pc |-> "setnx", id |-> id,
                        b |-> Marshal(NewInstanceState(
                                 [instance_id |-> id, execution_id |-> c], now)),
                        event |-> Marshal(StartedEvent(c, id, now)),
                        ok |-> FALSE, found |-> "none",
                        overlapped |-> others # {}, enqErr |-> "none",
                        result |-> "none"]
                  ELSE IF d \in others THEN [call[d] EXCEPT !.overlapped = TRUE]
                  ELSE call[d]]
    /\ UNCHANGED <<instanceKey, pendingEvents, historyStream, appended, workflowQueue,
                   task, tasksTaken, cancelCall, now,
                   commandVars, waitVars, resultVars, signalVars>>

\* createInstance: SETNX, then the duplicate check.
CreateSetNX(c) ==
    /\ call[c].pc = "setnx"
    /\ LET r == SetNX(instanceKey, call[c].id, call[c].b)
           err == createInstanceResult(r.ok, IgnoreDuplicate) IN
       /\ instanceKey' = r.store
       /\ call' = [call EXCEPT ![c] =
                     IF err # ErrNil
                     THEN [@ EXCEPT !.pc = "done", !.ok = r.ok,
                                    !.found = KeyHolds(call[c].id), !.result = err]
                     ELSE [@ EXCEPT !.pc = "xadd", !.ok = r.ok,
                                    !.found = KeyHolds(call[c].id)]]
    /\ UNCHANGED <<pendingEvents, historyStream, appended, workflowQueue,
                   task, tasksTaken, cancelCall, now,
                   commandVars, waitVars, resultVars, signalVars>>

\* XADD of the start event to the instance's pending stream.
CreateXAdd(c) ==
    /\ call[c].pc = "xadd"
    /\ pendingEvents' = XAdd(pendingEvents, call[c].id, call[c].event)
    /\ call' = [call EXCEPT ![c].pc = "enqueue"]
    /\ UNCHANGED <<instanceKey, historyStream, appended, workflowQueue,
                   task, tasksTaken, cancelCall, now,
                   commandVars, waitVars, resultVars, signalVars>>

\* Enqueue of the workflow task; ErrTaskAlreadyInQueue is not an error here.
CreateEnqueue(c) ==
    /\ call[c].pc = "enqueue"
    /\ LET r == Enqueue(workflowQueue, call[c].id) IN
       /\ workflowQueue' = r.queue
       /\ call' = [call EXCEPT ![c] =
                     [@ EXCEPT !.pc = "done", !.enqErr = r.err,
                               !.result = enqueueResult(r.err)]]
    /\ UNCHANGED <<instanceKey, pendingEvents, historyStream, appended,
                   task, tasksTaken, cancelCall, now,
                   commandVars, waitVars, resultVars, signalVars>>

\* ------------------------------------------ backend: failing Redis commands
ErrRedis == "redis: connection refused"
ErrCouldNotStore == "could not store instance"
ErrCouldNotCreateStream == "could not create event stream"
ErrCouldNotQueue == "could not queue workflow task"

\* SETNX fails: createInstance returns 'could not store instance'; nothing stored.
CreateSetNXFail(c) ==
    /\ call[c].pc = "setnx"
    /\ call' = [call EXCEPT ![c] =
                  [@ EXCEPT !.pc = "done", !.found = KeyHolds(call[c].id),
                            !.result = ErrCouldNotStore]]
    /\ UNCHANGED <<instanceKey, pendingEvents, historyStream, appended, workflowQueue,
                   task, tasksTaken, cancelCall, now,
                   commandVars, waitVars, resultVars, signalVars>>

\* XADD fails: the call returns 'could not create event stream'; the record
\* SETNX stored is left as it is.
CreateXAddFail(c) ==
    /\ call[c].pc = "xadd"
    /\ call' = [call EXCEPT ![c] =
                  [@ EXCEPT !.pc = "done", !.result = ErrCouldNotCreateStream]]
    /\ UNCHANGED <<instanceKey, pendingEvents, historyStream, appended, workflowQueue,
                   task, tasksTaken, cancelCall, now,
                   commandVars, waitVars, resultVars, signalVars>>

\* Enqueue fails with an error other than ErrTaskAlreadyInQueue: the call
\* returns 'could not queue workflow task'; record and start event stay.
CreateEnqueueFail(c) ==
    /\ call[c].pc = "enqueue"
    /\ call' = [call EXCEPT ![c] =
                  [@ EXCEPT !.pc = "done", !.enqErr = ErrRedis,
                            !.result = enqueueResult(ErrRedis)]]
    /\ UNCHANGED <<instanceKey, pendingEvents, historyStream, appended, workflowQueue,
                   task, tasksTaken, cancelCall, now,
                   commandVars, waitVars, resultVars, signalVars>>

\* ---------------------------------------------- backend: instance updates
\* updateInstance: SET of the marshalled state, overwriting what is stored.
updateInstance(store, id, state) == [store EXCEPT ![id] = {Marshal(state)}]

\* CancelWorkflowInstance of the Redis backend: panic("unimplemented").
redisCancelWorkflowInstance(id) == "panic"

\* client.CancelWorkflowInstance: builds the cancellation event and hands it to
\* the backend, whose outcome is the call's outcome.
CancelWorkflowInstance(id) ==
    /\ cancelCall' = [id |-> id,
                      active |-> GetWorkflowInstanceState(id) =
                                   [state |-> WorkflowStateActive, err |-> ErrNil],
                      event |-> Marshal([type |-> "WorkflowExecutionCanceled",
                                         instance_id |-> id, timestamp |-> now]),
                      outcome |-> redisCancelWorkflowInstance(id)]
    /\ UNCHANGED <<instanceKey, pendingEvents, historyStream, appended, workflowQueue,
                   task, tasksTaken, call, now,
                   commandVars, waitVars, resultVars, signalVars>>

\* ------------------------------------------------ workflow worker (§4.4)
TaskOutcomes == {"Suspended", "Finished", "FinishedWithError", "ContinuedAsNew"}

\* The events a workflow task emits for an outcome, after the closing
\* WorkflowTaskStarted.
EmittedEvents(outcome, t) ==
    <<Marshal([type |-> "WorkflowTaskStarted", timestamp |-> t])>> \o
    (CASE outcome = "Finished" ->
            <<Marshal([type |-> "WorkflowExecutionFinished", timestamp |-> t])>>
       [] outcome = "FinishedWithError" ->
            <<Marshal([type |-> "WorkflowExecutionFinishedWithError", timestamp |-> t])>>
       [] outcome = "ContinuedAsNew" ->
            <<Marshal([type |-> "WorkflowExecutionContinuedAsNew", timestamp |-> t])>>
       [] OTHER -> <<>>)

\* The instance state a task outcome leaves.
OutcomeState(outcome) ==
    CASE outcome = "Suspended" -> WorkflowStateActive
      [] outcome = "ContinuedAsNew" -> WorkflowStateContinuedAsNew
      [] OTHER -> WorkflowStateFinished

\* GetWorkflowTask: a worker takes the queued task of an instance; the task
\* carries the instance's current pending events.
GetWorkflowTask(id) ==
    /\ workflowQueue[id] > 0
    /\ task[id] = -1
    /\ workflowQueue' = [workflowQueue EXCEPT ![id] = @ - 1]
    /\ task' = [task EXCEPT ![id] = Len(pendingEvents[id])]
    /\ tasksTaken' = [tasksTaken EXCEPT ![id] = @ + 1]
    /\ UNCHANGED <<instanceKey, pendingEvents, historyStream, appended, call, cancelCall, now,
                   commandVars, waitVars, resultVars, signalVars>>

\* CompleteWorkflowTask: the consumed pending events and the emitted events
\* move to the committed history, the instance state is updated, and the
\* instance is queued again when events arrived meanwhile.
CompleteWorkflowTask(id, outcome) ==
    /\ task[id] >= 0
    /\ readInstance(id).found
    /\ LET n == task[id]
           st == readInstance(id).state
           rest == SubSeq(pendingEvents[id], n + 1, Len(pendingEvents[id])) IN
       /\ historyStream' = [historyStream EXCEPT ![id] =
              @ \o SubSeq(pendingEvents[id], 1, n) \o EmittedEvents(outcome, now)]
       /\ appended' = [appended EXCEPT ![id] =
              @ \o [i \in 1..n |-> Unmarshal(pendingEvents[id][i])]
                \o [i \in 1..Len(EmittedEvents(outcome, now)) |->
                       Unmarshal(EmittedEvents(outcome, now)[i])]]
       /\ pendingEvents' = [pendingEvents EXCEPT ![id] = rest]
       /\ instanceKey' = updateInstance(instanceKey, id,
              [st EXCEPT !.state = OutcomeState(outcome),
                         !.completed_at = IF outcome = "Suspended" THEN @ ELSE now])
       /\ workflowQueue' = IF rest # <<>> /\ outcome = "Suspended"
                           THEN Enqueue(workflowQueue, id).queue ELSE workflowQueue
    /\ task' = [task EXCEPT ![id] = -1]
    /\ UNCHANGED <<tasksTaken, call, cancelCall, now,
                   commandVars, waitVars, resultVars, signalVars>>

\* Wall-clock time passes.
Tick ==
    /\ now < MaxClock
    /\ now' = now + 1
    /\ UNCHANGED <<instanceKey, pendingEvents, historyStream, appended, workflowQueue,
                   task, tasksTaken, call, cancelCall,
                   commandVars, waitVars, resultVars, signalVars>>

BackendInit ==
    /\ instanceKey = [id \in InstanceIDs |-> {}]
    /\ pendingEvents = [id \in InstanceIDs |-> <<>>]
    /\ historyStream = [id \in InstanceIDs |-> <<>>]
    /\ appended = [id \in InstanceIDs |-> <<>>]
    /\ workflowQueue = [j \in InstanceIDs |-> 0]
    /\ task = [id \in InstanceIDs |-> -1]
    /\ tasksTaken = [id \in InstanceIDs |-> 0]
    /\ call = [c \in Callers |-> Idle]
    /\ cancelCall = [id |-> 0, active |-> FALSE, event |-> Marshal(0), outcome |-> "none"]
    /\ now = 0

\* ------------------------------------------- command: ScheduleActivity
MaxCommands == 2
MaxExecuteCalls == 2

CommandIDs == 1..MaxCommands
ActivityNames == {"Add", "Mul"}
Payloads == {<<>>, <<"p1">>}

CommandState_Pending == "Pending"
CommandState_Committed == "Committed"
CommandState_Done == "Done"

\* history.NewPendingEvent(timestamp, type, attributes, ScheduleEventID(id)).
NewPendingEvent(t, type, attributes, scheduleEventID) ==
    [type |-> type, timestamp |-> t, schedule_event_id |-> scheduleEventID,
     attributes |-> attributes]

\* NewScheduleActivityCommand: the constructed command object.
NewScheduleActivityCommand(id, name, inputs, metadata) ==
    [id |-> id, name |-> "ScheduleActivity", state |-> CommandState_Pending,
     Name |-> name, Inputs |-> inputs, Metadata |-> metadata]

\* ScheduleActivityCommand.Execute on command object c at clock time t: the
\* command afterwards and the returned *CommandResult ({} is nil).
ExecuteNoCommit(c, t) ==
    IF c.state = CommandState_Pending
    THEN LET event == NewPendingEvent(t, "ActivityScheduled",
                         [Name |-> c.Name, Inputs |-> c.Inputs, Metadata |-> c.Metadata],
                         c.id) IN
         [cmd |-> c,
          result |-> {[Events |-> <<event>>, ActivityEvents |-> <<event>>]}]
    ELSE [cmd |-> c, result |-> {}]

ExecuteRecommit(c, t) ==
    IF c.state = CommandState_Pending
    THEN LET event == NewPendingEvent(t, "ActivityScheduled",
                         [Name |-> c.Name, Inputs |-> c.Inputs, Metadata |-> c.Metadata],
                         c.id) IN
         [cmd |-> [c EXCEPT !.state = CommandState_Committed],
          result |-> {[Events |-> <<event>>, ActivityEvents |-> <<event>>]}]
    ELSE [cmd |-> [c EXCEPT !.state = CommandState_Pending], result |-> {}]

ExecuteAlways(c, t) ==
    LET event == NewPendingEvent(t, "ActivityScheduled",
                     [Name |-> c.Name, Inputs |-> c.Inputs, Metadata |-> c.Metadata],
                     c.id) IN
    [cmd |-> IF c.state = CommandState_Pending
             THEN [c EXCEPT !.state = CommandState_Committed]
             ELSE c,
     result |-> {[Events |-> <<event>>, ActivityEvents |-> <<event>>]}]

Execute(c, t) ==
    IF c.state = CommandState_Pending
    THEN LET event == NewPendingEvent(t, "ActivityScheduled",
                         [Name |-> c.Name, Inputs |-> c.Inputs, Metadata |-> c.Metadata],
                         c.id) IN
         [cmd |-> [c EXCEPT !.state = CommandState_Committed],
          result |-> {[Events |-> <<event>>, ActivityEvents |-> <<event>>]}]
    ELSE [cmd |-> c, result |-> {}]

TheCommand(id) == CHOOSE c \in commands[id] : TRUE

\* Workflow code schedules an activity: a new command object with the next id.
NewCommand(id, name, inputs) ==
    /\ commands[id] = {}
    /\ \A j \in CommandIDs : j < id => commands[j] # {}
    /\ commands' = [commands EXCEPT ![id] =
                      {NewScheduleActivityCommand(id, name, inputs, "metadata")}]
    /\ lastOp' = [op |-> "New", id |-> id, prior |-> "none", result |-> {}]
    /\ UNCHANGED <<execCalls, emitted, backendVars, waitVars, resultVars, signalVars>>

\* A caller runs Execute on a command.
ExecuteCommand(id) ==
    /\ commands[id] # {}
    /\ execCalls[id] < MaxExecuteCalls
    /\ LET r == Execute(TheCommand(id), now) IN
       /\ commands' = [commands EXCEPT ![id] = {r.cmd}]
       /\ lastOp' = [op |-> "Execute", id |-> id,
                     prior |-> TheCommand(id).state, result |-> r.result]
    /\ execCalls' = [execCalls EXCEPT ![id] = @ + 1]
    /\ emitted' = [emitted EXCEPT ![id] =
                     @ + (IF Execute(TheCommand(id), now).result = {} THEN 0
                          ELSE Len((CHOOSE r \in Execute(TheCommand(id), now).result : TRUE).Events))]
    /\ UNCHANGED <<backendVars, waitVars, resultVars, signalVars>>

\* The response event of a committed command arrives: the command is done.
CommandDone(id) ==
    /\ commands[id] # {}
    /\ TheCommand(id).state = CommandState_Committed
    /\ commands' = [commands EXCEPT ![id] =
                      {[TheCommand(id) EXCEPT !.state = CommandState_Done]}]
    /\ lastOp' = [op |-> "Done", id |-> id, prior |-> CommandState_Committed, result |-> {}]
    /\ UNCHANGED <<execCalls, emitted, backendVars, waitVars, resultVars, signalVars>>

CommandInit ==
    /\ commands = [id \in CommandIDs |-> {}]
    /\ execCalls = [id \in CommandIDs |-> 0]
    /\ emitted = [id \in CommandIDs |-> 0]
    /\ lastOp = [op |-> "none", id |-> 0, prior |-> "none", result |-> {}]

\* --------------------------------------- client: WaitForWorkflowInstance
MaxFreeDraws == 3

\* The timeouts callers pass (microseconds); 0 asks for the default.
WaitTimeouts == {0, 1000, 6000, 3000000}

\* rand.Float64() is sampled at the ends and the middle of [0, 1).
Draws == {"lo", "mid", "hi"}

Stop == -1

ErrWaitTimeout == "workflow did not finish in specified timeout"

\* timeout == 0 is replaced by 20 s.
EffectiveTimeoutNoDefault(timeout) == timeout

EffectiveTimeout(timeout) == IF timeout = 0 THEN DefaultTimeout ELSE timeout

\* The loop's test of the polled state.
IsTerminalOnlyFinished(s) == s = WorkflowStateFinished

IsTerminal(s) == s = WorkflowStateFinished \/ s = WorkflowStateContinuedAsNew

\* backoff: getRandomValueFromInterval(RandomizationFactor, random, currentInterval)
\* = min + random * (max - min + 1), truncated.
getRandomValueFromInterval(random, cur) ==
    LET delta == (RandomizationNum * cur) \div RandomizationDen
        min == cur - delta
        max == cur + delta IN
    CASE random = "lo" -> min
      [] random = "mid" -> min + (max - min + 1) \div 2
      [] OTHER -> max

\* backoff: incrementCurrentInterval, which caps the interval at MaxInterval.
incrementCurrentIntervalNoCap(cur) == (cur * MultiplierNum) \div MultiplierDen

incrementCurrentInterval(cur) ==
    IF cur * MultiplierNum >= MaxInterval * MultiplierDen
    THEN MaxInterval
    ELSE (cur * MultiplierNum) \div MultiplierDen

\* backoff: NextBackOff's result for the drawn interval: Stop once the elapsed
\* time plus the interval would pass MaxElapsedTime.
NextBackOffLate(el, next, maxElapsed) ==
    IF maxElapsed # 0 /\ el > maxElapsed THEN Stop ELSE next

NextBackOff(el, next, maxElapsed) ==
    IF maxElapsed # 0 /\ el + next > maxElapsed THEN Stop ELSE next

\* The call starts: the default timeout, b.Reset(), and the ticker, which
\* ticks at once.
WaitBegin(id, timeout) ==
    /\ wpc = "idle"
    /\ wpc' = "tick"
    /\ wInstance' = id
    /\ wArg' = timeout
    /\ wTimeout' = EffectiveTimeout(timeout)
    /\ currentInterval' = InitialInterval
    /\ elapsed' = 0
    /\ UNCHANGED <<nextWait, waitBase, polls, lastPoll, seen, draws, lastDraw, wResult,
                   backendVars, commandVars, resultVars, signalVars>>

\* The loop body for one tick: poll the state and decide.
WaitPoll ==
    /\ wpc = "tick"
    /\ LET s == GetWorkflowInstanceState(wInstance) IN
       /\ lastPoll' = {s}
       /\ seen' = IF s.err = ErrNil THEN seen \cup {s.state} ELSE seen
       /\ IF s.err # ErrNil
          THEN wpc' = "done" /\ wResult' = "getting workflow state"
          ELSE IF IsTerminal(s.state)
          THEN wpc' = "done" /\ wResult' = "ok"
          ELSE wpc' = "backoff" /\ UNCHANGED wResult
    /\ polls' = polls + 1
    /\ UNCHANGED <<wInstance, wArg, wTimeout, currentInterval, elapsed, nextWait,
                   waitBase, draws, lastDraw,
                   backendVars, commandVars, resultVars, signalVars>>

\* The random draws the model explores: free for the first MaxFreeDraws
\* intervals, then the last draw again.
DrawsAllowed == IF draws < MaxFreeDraws THEN Draws ELSE {lastDraw}

\* The ticker asks NextBackOff for the next interval; Stop closes the ticker's
\* channel, the loop ends and the call returns the timeout error.
WaitNextBackOff(random) ==
    /\ wpc = "backoff"
    /\ random \in DrawsAllowed
    /\ LET drawn == getRandomValueFromInterval(random, currentInterval)
           next == NextBackOff(elapsed, drawn, wTimeout) IN
       /\ nextWait' = drawn
       /\ IF next = Stop
          THEN wpc' = "done" /\ wResult' = ErrWaitTimeout
          ELSE wpc' = "sleep" /\ UNCHANGED wResult
    /\ waitBase' = currentInterval
    /\ currentInterval' = incrementCurrentInterval(currentInterval)
    /\ draws' = draws + 1
    /\ lastDraw' = random
    /\ UNCHANGED <<wInstance, wArg, wTimeout, elapsed, polls, lastPoll, seen,
                   backendVars, commandVars, resultVars, signalVars>>

\* The ticker's timer fires after the interval: the next tick.
WaitSleep ==
    /\ wpc = "sleep"
    /\ elapsed' = elapsed + nextWait
    /\ wpc' = "tick"
    /\ UNCHANGED <<wInstance, wArg, wTimeout, currentInterval, nextWait, waitBase,
                   polls, lastPoll, seen, draws, lastDraw, wResult,
                   backendVars, commandVars, resultVars, signalVars>>

WaitIdle ==
    /\ wpc = "idle"
    /\ wInstance = 0
    /\ wArg = 0
    /\ wTimeout = 0
    /\ currentInterval = 0
    /\ elapsed = 0
    /\ nextWait = 0
    /\ waitBase = 0
    /\ polls = 0
    /\ lastPoll = {}
    /\ seen = {}
    /\ draws = 0
    /\ lastDraw = "lo"
    /\ wResult = "none"

\* The backend once instance id was created by caller c and a worker has taken
\* its task.
BackendWithTask(id, c) ==
    /\ instanceKey = [j \in InstanceIDs |->
          IF j = id
          THEN {Marshal(NewInstanceState([instance_id |-> id, execution_id |-> c], 0))}
          ELSE {}]
    /\ pendingEvents = [j \in InstanceIDs |->
          IF j = id THEN <<Marshal(StartedEvent(c, id, 0))>> ELSE <<>>]
    /\ historyStream = [j \in InstanceIDs |-> <<>>]
    /\ appended = [j \in InstanceIDs |-> <<>>]
    /\ workflowQueue = [j \in InstanceIDs |-> 0]
    /\ task = [j \in InstanceIDs |-> IF j = id THEN 1 ELSE -1]
    /\ tasksTaken = [j \in InstanceIDs |-> IF j = id THEN 1 ELSE 0]
    /\ call = [d \in Callers |->
          IF d = c
          THEN [pc |-> "done", id |-> id,
                b |-> Marshal(NewInstanceState(
                         [instance_id |-> id, execution_id |-> c], 0)),
                event |-> Marshal(StartedEvent(c, id, 0)),
                ok |-> TRUE, found |-> "absent", overlapped |-> FALSE,
                enqErr |-> ErrNil, result |-> "ok"]
          ELSE Idle]
    /\ cancelCall = [id |-> 0, active |-> FALSE, event |-> Marshal(0), outcome |-> "none"]
    /\ now = 0

\* ------------------------------------------------ client: GetWorkflowResult
MaxHistory == 3

\* Converter: To encodes a value as a payload, From decodes a payload or fails.
ConverterTo(v) == [data |-> v, valid |-> TRUE]
BadPayload == [data |-> 0, valid |-> FALSE]
ConverterFrom(p) ==
    IF p.valid THEN [err |-> ErrNil, value |-> p.data]
    ELSE [err |-> "converting result", value |-> 0]

ErrWorkflowCanceled == "workflow canceled"
ErrWorkflowTerminated == "workflow terminated"
ErrNoResultEvent == "workflow finished, but could not find result event"
ErrDidNotFinish == "workflow did not finish in time"

HistoryEvent(type, error, result) == [type |-> type, error |-> error, result |-> result]

\* The committed events the histories are drawn from: error "" is a nil Error.
ResultEvents ==
    { HistoryEvent("WorkflowExecutionFinished", "", ConverterTo(1)),
      HistoryEvent("WorkflowExecutionFinished", "boom", ConverterTo(0)),
      HistoryEvent("WorkflowExecutionFinished", "", BadPayload),
      HistoryEvent("WorkflowExecutionContinuedAsNew", "", ConverterTo(2)),
      HistoryEvent("WorkflowExecutionCanceled", "", ConverterTo(0)),
      HistoryEvent("WorkflowExecutionTerminated", "", ConverterTo(0)),
      HistoryEvent("WorkflowTaskStarted", "", ConverterTo(0)),
      HistoryEvent("SignalReceived", "", ConverterTo(3)) }

\* What GetWorkflowResult returns: the value (0 is *new(T)) and the error.
Returned(value, err) == [value |-> value, err |-> err]

\* The index of h the loop looks at in its k-th iteration (k from 0):
\* for i := len(h) - 1; i >= 0; i--, as a 1-based index.
ScanIndexForward(h, k) == k + 1

ScanIndex(h, k) == Len(h) - k

\* The switch on event.Type: {} when no case returns.
EventOutcomeNoCanceled(event) ==
    CASE event.type = "WorkflowExecutionFinished" ->
           IF event.error # ""
           THEN {Returned(0, event.error)}
           ELSE LET r == ConverterFrom(event.result) IN
                IF r.err # ErrNil THEN {Returned(0, r.err)} ELSE {Returned(r.value, ErrNil)}
      [] event.type = "WorkflowExecutionContinuedAsNew" ->
           LET r == ConverterFrom(event.result) IN
           IF r.err # ErrNil THEN {Returned(0, r.err)} ELSE {Returned(r.value, ErrNil)}
      [] event.type = "WorkflowExecutionTerminated" -> {Returned(0, ErrWorkflowTerminated)}
      [] OTHER -> {}

EventOutcome(event) ==
    CASE event.type = "WorkflowExecutionFinished" ->
           IF event.error # ""
           THEN {Returned(0, event.error)}
           ELSE LET r == ConverterFrom(event.result) IN
                IF r.err # ErrNil THEN {Returned(0, r.err)} ELSE {Returned(r.value, ErrNil)}
      [] event.type = "WorkflowExecutionContinuedAsNew" ->
           LET r == ConverterFrom(event.result) IN
           IF r.err # ErrNil THEN {Returned(0, r.err)} ELSE {Returned(r.value, ErrNil)}
      [] event.type = "WorkflowExecutionCanceled" -> {Returned(0, ErrWorkflowCanceled)}
      [] event.type = "WorkflowExecutionTerminated" -> {Returned(0, ErrWorkflowTerminated)}
      [] OTHER -> {}

\* GetWorkflowResult waits for the instance, which here does not change while
\* it waits: the wait succeeds exactly when the polled state is terminal. Then
\* it reads the committed history.
ResultBegin(id) ==
    /\ rpc = "idle"
    /\ rInstance' = id
    /\ LET s == GetWorkflowInstanceState(id) IN
       IF s.err = ErrNil /\ IsTerminal(s.state)
       THEN /\ rpc' = "scan"
            /\ rHistory' = GetWorkflowInstanceHistory(id)
            /\ UNCHANGED rOutcome
       ELSE /\ rpc' = "done"
            /\ rOutcome' = Returned(0, ErrDidNotFinish)
            /\ UNCHANGED rHistory
    /\ UNCHANGED <<rIter, backendVars, commandVars, waitVars, signalVars>>

\* One iteration of the loop over the history, or its end.
ResultScan ==
    /\ rpc = "scan"
    /\ IF rIter = Len(rHistory)
       THEN /\ rpc' = "done"
            /\ rOutcome' = Returned(0, ErrNoResultEvent)
            /\ UNCHANGED rIter
       ELSE LET o == EventOutcome(rHistory[ScanIndex(rHistory, rIter)]) IN
            IF o = {}
            THEN /\ rIter' = rIter + 1
                 /\ UNCHANGED <<rpc, rOutcome>>
            ELSE /\ rpc' = "done"
                 /\ rOutcome' = CHOOSE x \in o : TRUE
                 /\ UNCHANGED rIter
    /\ UNCHANGED <<rInstance, rHistory, backendVars, commandVars, waitVars, signalVars>>

ResultIdle ==
    /\ rpc = "idle"
    /\ rInstance = 0
    /\ rHistory = <<>>
    /\ rIter = 0
    /\ rOutcome = Returned(0, "none")

\* Histories up to MaxHistory events, as stored.
StoredHistories ==
    UNION {[1..n -> {Marshal(e) : e \in ResultEvents}] : n \in 0..MaxHistory}

\* An instance in any state with any committed history.
BackendWithHistory(id, state, stored) ==
    /\ instanceKey = [j \in InstanceIDs |->
          IF j = id
          THEN {Marshal([NewInstanceState([instance_id |-> id, execution_id |-> 1], 0)
                           EXCEPT !.state = state,
                                  !.completed_at = IF state = WorkflowStateActive
                                                   THEN -1 ELSE 0])}
          ELSE {}]
    /\ pendingEvents = [j \in InstanceIDs |-> <<>>]
    /\ historyStream = [j \in InstanceIDs |-> IF j = id THEN stored ELSE <<>>]
    /\ appended = [j \in InstanceIDs |->
          IF j = id THEN [i \in 1..Len(stored) |-> Unmarshal(stored[i])] ELSE <<>>]
    /\ workflowQueue = [j \in InstanceIDs |-> 0]
    /\ task = [j \in InstanceIDs |-> -1]
    /\ tasksTaken = [j \in InstanceIDs |-> IF j = id THEN 1 ELSE 0]
    /\ call = [d \in Callers |-> Idle]
    /\ cancelCall = [id |-> 0, active |-> FALSE, event |-> Marshal(0), outcome |-> "none"]
    /\ now = 0

\* ------------------------------------------------- client: SignalWorkflow
MaxSignals == 2

SignalNames == {"go"}
SignalArgs == {"hi", "unconvertible"}

ErrInstanceNotFound == "InstanceNotFound"
ErrInstanceFinished == "InstanceFinished"
ErrConvertingArguments == "converting arguments"

\* Converter.To fails on a value it cannot encode.
CanConvert(arg) == arg # "unconvertible"

\* The backend's verdict on a signal for instance id.
backendSignalWorkflow(id) ==
    CASE KeyHolds(id) = "absent" -> ErrInstanceNotFound
      [] KeyHolds(id) \in {WorkflowStateFinished, WorkflowStateContinuedAsNew} ->
           ErrInstanceFinished
      [] OTHER -> ErrNil

\* The signal event client.SignalWorkflow builds.
SignalEventUnnamed(name, input, t) ==
    NewPendingEvent(t, "SignalReceived", [Name |-> "", Arg |-> input], 0)

SignalEvent(name, input, t) ==
    NewPendingEvent(t, "SignalReceived", [Name |-> name, Arg |-> input], 0)

\* client.SignalWorkflow's result for the backend's error.
signalResultSwallowed(err) == ErrNil

signalResult(err) == err

NoSignal == [id |-> 0, name |-> "", arg |-> "", found |-> "none",
             backendErr |-> "none", result |-> "none"]

\* client.SignalWorkflow: convert the argument, build the event, hand it to the
\* backend; an accepted signal is appended to the pending queue and the
\* instance's task is enqueued.
SignalWorkflow(id, name, arg) ==
    /\ signalsSent < MaxSignals
    /\ signalsSent' = signalsSent + 1
    /\ IF ~CanConvert(arg)
       THEN /\ sigCall' = [id |-> id, name |-> name, arg |-> arg, found |-> KeyHolds(id),
                           backendErr |-> "none", result |-> ErrConvertingArguments]
            /\ UNCHANGED <<pendingEvents, workflowQueue>>
       ELSE LET err == backendSignalWorkflow(id)
                event == SignalEvent(name, ConverterTo(arg), now) IN
            /\ sigCall' = [id |-> id, name |-> name, arg |-> arg, found |-> KeyHolds(id),
                           backendErr |-> err, result |-> signalResult(err)]
            /\ IF err = ErrNil
               THEN /\ pendingEvents' = XAdd(pendingEvents, id, Marshal(event))
                    /\ workflowQueue' = Enqueue(workflowQueue, id).queue
               ELSE UNCHANGED <<pendingEvents, workflowQueue>>
    /\ UNCHANGED <<instanceKey, historyStream, appended, task, tasksTaken, call,
                   cancelCall, now, commandVars, waitVars, resultVars>>

SignalIdle ==
    /\ sigCall = NoSignal
    /\ signalsSent = 0

\* ---------------------------------------------------------- specifications
vars == <<backendVars, commandVars, waitVars, resultVars, signalVars>>

Init == BackendInit /\ CommandInit /\ WaitIdle /\ ResultIdle /\ SignalIdle

CreateWorkflowInstance ==
    \E c \in Callers :
        \/ \E id \in InstanceIDs : CreateBegin(c, id)
        \/ CreateSetNX(c)
        \/ CreateXAdd(c)
        \/ CreateEnqueue(c)

Worker ==
    \E id \in InstanceIDs :
        \/ GetWorkflowTask(id)
        \/ \E o \in TaskOutcomes : CompleteWorkflowTask(id, o)

Next ==
    \/ CreateWorkflowInstance
    \/ Worker
    \/ \E id \in InstanceIDs : CancelWorkflowInstance(id)
    \/ Tick

\* The backend under concurrent clients and a workflow worker.
Spec == Init /\ [][Next]_vars

CommandNext ==
    \/ \E id \in CommandIDs, name \in ActivityNames, inputs \in Payloads :
           NewCommand(id, name, inputs)
    \/ \E id \in CommandIDs : ExecuteCommand(id)
    \/ \E id \in CommandIDs : CommandDone(id)
    \/ Tick

\* ScheduleActivity commands under construction, Execute and completion.
SpecCommand == Init /\ [][CommandNext]_vars

WaitInit ==
    /\ BackendInit \/ BackendWithTask(1, 1)
    /\ CommandInit /\ WaitIdle /\ ResultIdle /\ SignalIdle

WaitNext ==
    \/ \E id \in InstanceIDs, timeout \in WaitTimeouts : WaitBegin(id, timeout)
    \/ WaitPoll
    \/ \E random \in Draws : WaitNextBackOff(random)
    \/ WaitSleep
    \/ \E id \in InstanceIDs, o \in TaskOutcomes : CompleteWorkflowTask(id, o)

\* One WaitForWorkflowInstance call while a worker may complete the instance's task.
SpecWait == WaitInit /\ [][WaitNext]_vars

ResultInit ==
    /\ \E state \in {WorkflowStateActive, WorkflowStateFinished, WorkflowStateContinuedAsNew},
          stored \in StoredHistories : BackendWithHistory(1, state, stored)
    /\ CommandInit /\ WaitIdle /\ ResultIdle /\ SignalIdle

ResultNext ==
    \/ \E id \in InstanceIDs : ResultBegin(id)
    \/ ResultScan

\* GetWorkflowResult on an instance with any committed history.
SpecResult == ResultInit /\ [][ResultNext]_vars

\* One client creates instances; others send signals meanwhile.
SignalNext ==
    \/ \E id \in InstanceIDs : CreateBegin(1, id)
    \/ CreateSetNX(1)
    \/ CreateXAdd(1)
    \/ CreateEnqueue(1)
    \/ Worker
    \/ \E id \in InstanceIDs, name \in SignalNames, arg \in SignalArgs :
           SignalWorkflow(id, name, arg)

\* The backend under concurrent creates, signals and a workflow worker.
SpecSignal == Init /\ [][SignalNext]_vars

FaultNext ==
    \/ CreateWorkflowInstance
    \/ \E c \in Callers : CreateSetNXFail(c)
    \/ \E c \in Callers : CreateXAddFail(c)
    \/ \E c \in Callers : CreateEnqueueFail(c)
    \/ Worker

\* The backend when any Redis command of CreateWorkflowInstance may fail.
SpecFault == Init /\ [][FaultNext]_vars

\* ------------------------------------------------------------------ claims
\* The calls that target instance id.
CallsFor(id) == {c \in Callers : call[c].pc # "idle" /\ call[c].id = id}

\* The number of start events in a stream.
StartEvents(stream) ==
    Cardinality({i \in 1..Len(stream) :
                   Unmarshal(stream[i]).type = "WorkflowExecutionStarted"})

\* C1: a CreateWorkflowInstance call whose SETNX found the instance record
\* already stored, in whatever state, returns the 'workflow instance already
\* exists' error and goes no further (the duplicate is never ignored).
C1_DuplicateCreateFails ==
    \A c \in Callers :
        call[c].found \in {WorkflowStateActive, WorkflowStateFinished,
                           WorkflowStateContinuedAsNew}
        => /\ call[c].pc = "done"
           /\ call[c].result = ErrAlreadyExists

\* C1 witness: a create on an instance that had already finished was refused.
C1_Witness ==
    \E c \in Callers :
        /\ call[c].found = WorkflowStateFinished
        /\ call[c].result = ErrAlreadyExists

\* C2: once all of two or more calls for the same instance id have returned,
\* exactly one returned success, every other returned the duplicate error, and
\* exactly one start event was appended for the instance: it is the pending
\* queue's only event until a workflow task consumes it.
C2_ExactlyOneCreateWins ==
    \A id \in InstanceIDs :
        LET cs == CallsFor(id) IN
        (Cardinality(cs) >= 2 /\ \A c \in cs : call[c].pc = "done")
        => /\ Cardinality({c \in cs : call[c].result = "ok"}) = 1
           /\ \A c \in cs : call[c].result \in {"ok", ErrAlreadyExists}
           /\ StartEvents(pendingEvents[id]) + StartEvents(historyStream[id]) = 1
           /\ (tasksTaken[id] = 0 \/ task[id] >= 0)
                 => /\ Len(pendingEvents[id]) = 1
                    /\ StartEvents(pendingEvents[id]) = 1

\* C2 witness: two calls for one instance that ran concurrently have both
\* returned, and the start event is still pending.
C2_Witness ==
    \E c, d \in Callers :
        /\ c # d
        /\ call[c].id = call[d].id
        /\ call[c].pc = "done" /\ call[d].pc = "done"
        /\ call[c].overlapped /\ call[d].overlapped
        /\ tasksTaken[call[c].id] = 0

\* C3: after a create returned success and before any workflow task of the
\* instance was taken, the instance state reads Active, the pending queue holds
\* the call's start event, the committed history is empty and the instance's
\* task is in the workflow queue.
C3_CreatedInstanceIsReady ==
    \A c \in Callers :
        (call[c].pc = "done" /\ call[c].result = "ok" /\ tasksTaken[call[c].id] = 0)
        => LET id == call[c].id IN
           /\ GetWorkflowInstanceState(id) = [state |-> WorkflowStateActive, err |-> ErrNil]
           /\ \E i \in 1..Len(pendingEvents[id]) : pendingEvents[id][i] = call[c].event
           /\ Unmarshal(call[c].event).type = "WorkflowExecutionStarted"
           /\ GetWorkflowInstanceHistory(id) = <<>>
           /\ workflowQueue[id] = 1

\* C3 witness: a create has returned success and no task was taken yet.
C3_Witness ==
    \E c \in Callers :
        call[c].pc = "done" /\ call[c].result = "ok" /\ tasksTaken[call[c].id] = 0

\* C4: a CancelWorkflowInstance call on an existing active instance returns
\* normally (no panic, no not-implemented failure) and its cancellation event
\* is in the instance's pending queue.
C4_CancelAppendsEvent ==
    (cancelCall.outcome # "none" /\ cancelCall.active)
    => /\ cancelCall.outcome = "ok"
       /\ \E i \in 1..Len(pendingEvents[cancelCall.id]) :
              Unmarshal(pendingEvents[cancelCall.id][i]).type = "WorkflowExecutionCanceled"

\* C5: right after Execute ran on a command that was Pending, the command is
\* Committed and the call returned exactly one event, an ActivityScheduled
\* whose schedule_event_id is the command id and whose name and inputs are the
\* command's, and exactly one activity message, which is that same event.
C5_ExecutePendingSchedulesActivity ==
    (lastOp.op = "Execute" /\ lastOp.prior = CommandState_Pending)
    => LET c == TheCommand(lastOp.id) IN
       /\ c.state = CommandState_Committed
       /\ Cardinality(lastOp.result) = 1
       /\ \A r \in lastOp.result :
            /\ Len(r.Events) = 1
            /\ r.Events[1].type = "ActivityScheduled"
            /\ r.Events[1].schedule_event_id = lastOp.id
            /\ r.Events[1].attributes.Name = c.Name
            /\ r.Events[1].attributes.Inputs = c.Inputs
            /\ Len(r.ActivityEvents) = 1
            /\ r.ActivityEvents[1] = r.Events[1]

\* C5 witness: Execute has just run on the second command while it was Pending.
C5_Witness ==
    /\ lastOp.op = "Execute"
    /\ lastOp.prior = CommandState_Pending
    /\ lastOp.id = 2
    /\ TheCommand(2).Inputs # <<>>

\* Pending, Committed, Done in their order.
StateRank(state) ==
    CASE state = CommandState_Pending -> 1
      [] state = CommandState_Committed -> 2
      [] state = CommandState_Done -> 3

\* C6: a newly constructed command is Pending, and no step (Execute among
\* them) moves a command to an earlier state of Pending, Committed, Done.
C6_CommandStateOnlyMovesForward ==
    [][\A id \in CommandIDs :
          /\ (commands[id] = {} /\ commands'[id] # {})
                => \A c \in commands'[id] : c.state = CommandState_Pending
          /\ (commands[id] # {})
                => \A c \in commands[id], d \in commands'[id] :
                       StateRank(d.state) >= StateRank(c.state)]_vars

\* C6 witness: Execute ran twice on a command, which is Committed.
C6_Witness ==
    \E id \in CommandIDs :
        /\ execCalls[id] >= 2
        /\ commands[id] # {}
        /\ TheCommand(id).state = CommandState_Committed

\* The instance states that end a wait.
TerminalStates == {WorkflowStateFinished, WorkflowStateContinuedAsNew}

\* C7: WaitForWorkflowInstance has returned success only if a poll returned
\* Finished or ContinuedAsNew (never while every polled state was Active), and
\* a poll that returns a terminal state makes the call return success.
C7_WaitSucceedsIffTerminalPolled ==
    /\ wResult = "ok"
          => /\ \E s \in lastPoll : s.err = ErrNil /\ s.state \in TerminalStates
             /\ seen \cap TerminalStates # {}
    /\ seen \subseteq {WorkflowStateActive} => wResult # "ok"
    /\ \A s \in lastPoll :
          (s.err = ErrNil /\ s.state \in TerminalStates)
          => wpc = "done" /\ wResult = "ok"

\* C7 witness: a wait returned success on ContinuedAsNew after polls that saw Active.
C7_Witness ==
    /\ wResult = "ok"
    /\ polls >= 3
    /\ seen = {WorkflowStateActive, WorkflowStateContinuedAsNew}

\* C8: a wait always ends. Its limit is the timeout argument, 20 s when that is
\* 0; the time spent waiting never passes the limit; every wait between polls
\* lasts at least half the initial interval, so the polls are bounded by the
\* limit; a call that has not returned can always take its next step; and the
\* call returns the timeout error exactly when the next wait would pass the limit.
C8_WaitEndsWithinTimeout ==
    wpc # "idle"
    => /\ wTimeout = (IF wArg = 0 THEN DefaultTimeout ELSE wArg)
       /\ elapsed <= wTimeout
       /\ (polls - 1) * (InitialInterval \div 2) <= elapsed
       /\ wpc # "done" =>
            ENABLED (WaitPoll \/ WaitSleep \/ \E random \in Draws : WaitNextBackOff(random))
       /\ wResult = ErrWaitTimeout
            => /\ wpc = "done"
               /\ elapsed + nextWait > wTimeout
               /\ seen = {WorkflowStateActive}

\* C8 witness: a wait with timeout 0 returned the timeout error after more than 19 s.
C8_Witness ==
    /\ wArg = 0
    /\ wResult = ErrWaitTimeout
    /\ elapsed > 19000000

Min(a, b) == IF a <= b THEN a ELSE b

\* The k-th nominal interval: 1 ms first, then 1.5 times the one before, at most 1 s.
RECURSIVE NominalInterval(_)
NominalInterval(k) ==
    IF k <= 1 THEN InitialInterval
    ELSE Min(MaxInterval, (NominalInterval(k - 1) * 3) \div 2)

\* C9 as stated: the k-th wait between polls is the k-th nominal interval
\* (1 ms, then 1.5 times the previous) and never exceeds 1 s.
C9_WaitsAreNominal ==
    wpc = "sleep"
    => /\ nextWait = NominalInterval(draws)
       /\ nextWait <= MaxInterval

\* C9 amended: the nominal interval is 1 ms first and 1.5 times the previous
\* one afterwards, at most 1 s; the wait between two polls is drawn between 0.5
\* and 1.5 times the nominal interval, so it never exceeds 1.5 s.
C9_WaitsAreJitteredNominal ==
    draws >= 1
    => /\ waitBase = NominalInterval(draws)
       /\ currentInterval = NominalInterval(draws + 1)
       /\ waitBase <= MaxInterval
       /\ 2 * nextWait >= waitBase - 1
       /\ 2 * nextWait <= 3 * waitBase
       /\ nextWait <= (3 * MaxInterval) \div 2

\* C9 witness: a wait of more than 1 s between two polls.
C9_Witness ==
    /\ wpc = "sleep"
    /\ nextWait > MaxInterval
    /\ waitBase = MaxInterval

TerminalEventTypes ==
    {"WorkflowExecutionFinished", "WorkflowExecutionContinuedAsNew",
     "WorkflowExecutionCanceled", "WorkflowExecutionTerminated"}

\* The outcome the latest terminal event of h stands for.
LatestTerminalOutcome(h) ==
    LET T == {i \in 1..Len(h) : h[i].type \in TerminalEventTypes} IN
    IF T = {} THEN Returned(0, ErrNoResultEvent)
    ELSE LET e == h[CHOOSE i \in T : \A j \in T : j <= i]
             decoded == IF e.result.valid THEN Returned(e.result.data, ErrNil)
                        ELSE Returned(0, "converting result") IN
         CASE e.type = "WorkflowExecutionFinished" /\ e.error = "" -> decoded
           [] e.type = "WorkflowExecutionFinished" /\ e.error # "" -> Returned(0, e.error)
           [] e.type = "WorkflowExecutionContinuedAsNew" -> decoded
           [] e.type = "WorkflowExecutionCanceled" -> Returned(0, ErrWorkflowCanceled)
           [] e.type = "WorkflowExecutionTerminated" -> Returned(0, ErrWorkflowTerminated)

\* C10: for a terminal instance, GetWorkflowResult returns the outcome of the
\* latest terminal event of the committed history (the decoded result, the
\* workflow's error, ErrWorkflowCanceled or ErrWorkflowTerminated), and an
\* error when the history has no terminal event, whatever other events
\* precede or follow it.
C10_ResultOfLatestTerminalEvent ==
    (rpc = "done" /\ GetWorkflowInstanceState(rInstance) \in
                        {[state |-> t, err |-> ErrNil] : t \in TerminalStates})
    => rOutcome = LatestTerminalOutcome(GetWorkflowInstanceHistory(rInstance))

\* C10 witness: the result was read from a history whose latest terminal event,
\* a cancellation, follows another terminal event and precedes another event.
C10_Witness ==
    /\ rpc = "done"
    /\ Len(rHistory) = 3
    /\ rHistory[1].type = "WorkflowExecutionFinished"
    /\ rHistory[2].type = "WorkflowExecutionCanceled"
    /\ rHistory[3].type = "WorkflowTaskStarted"
    /\ rOutcome = Returned(0, ErrWorkflowCanceled)

\* C11: the workflow queue never holds more than one task of an instance
\* (an enqueue for an instance that has one queued adds nothing), and a
\* CreateWorkflowInstance call whose Enqueue answered 'task already in queue'
\* returns success.
C11_OneQueuedTaskPerInstance ==
    /\ \A id \in InstanceIDs : workflowQueue[id] <= 1
    /\ \A c \in Callers :
          call[c].enqErr = ErrTaskAlreadyInQueue
          => /\ call[c].pc = "done"
             /\ call[c].result = "ok"

\* C11 witness: a create found the instance's task already queued (a signal
\* had queued it) and returned success; one task is queued.
C11_Witness ==
    \E c \in Callers :
        /\ call[c].enqErr = ErrTaskAlreadyInQueue
        /\ call[c].result = "ok"
        /\ workflowQueue[call[c].id] = 1
        /\ tasksTaken[call[c].id] = 0

\* The events of instance id that were accepted: pending or committed.
AcceptedEvents(id) ==
    {Unmarshal(pendingEvents[id][i]) : i \in 1..Len(pendingEvents[id])}
    \cup {appended[id][i] : i \in 1..Len(appended[id])}

\* C12: client SignalWorkflow returns the backend's error whenever the backend
\* rejects the signal (InstanceNotFound for an unknown instance,
\* InstanceFinished for a terminal one), and returns success only when the
\* backend accepted a SignalReceived event with the given name and the encoded
\* payload for the given instance.
C12_SignalResultIsBackendVerdict ==
    sigCall.result # "none"
    => /\ (sigCall.backendErr \notin {"none", ErrNil}) => sigCall.result = sigCall.backendErr
       /\ (sigCall.found = "absent" /\ CanConvert(sigCall.arg))
             => sigCall.result = ErrInstanceNotFound
       /\ (sigCall.found \in {WorkflowStateFinished, WorkflowStateContinuedAsNew}
             /\ CanConvert(sigCall.arg))
             => sigCall.result = ErrInstanceFinished
       /\ sigCall.result = ErrNil
             => /\ sigCall.backendErr = ErrNil
                /\ sigCall.found = WorkflowStateActive
                /\ \E e \in AcceptedEvents(sigCall.id) :
                      /\ e.type = "SignalReceived"
                      /\ e.attributes.Name = sigCall.name
                      /\ e.attributes.Arg = ConverterTo(sigCall.arg)

\* C12 witness: a signal was accepted and a later one to the then finished
\* instance was rejected.
C12_Witness ==
    /\ sigCall.result = ErrInstanceFinished
    /\ \E e \in AcceptedEvents(sigCall.id) : e.type = "SignalReceived"

\* C13: GetWorkflowInstanceHistory returns exactly the committed events of the
\* instance, in the order they were appended.
C13_HistoryInAppendOrder ==
    \A id \in InstanceIDs : GetWorkflowInstanceHistory(id) = appended[id]

\* C13 witness: a history of two tasks' events, whose first and last differ.
C13_Witness ==
    \E id \in InstanceIDs :
        /\ Len(appended[id]) >= 4
        /\ tasksTaken[id] >= 2
        /\ appended[id][1] # appended[id][Len(appended[id])]

\* C14: Execute on a command that is not Pending returns no result and leaves
\* the state as it was, so over any number of Execute calls a command's
\* ActivityScheduled event (and activity message) is returned at most once.
C14_ExecuteEmitsAtMostOnce ==
    /\ \A id \in CommandIDs : emitted[id] <= 1
    /\ \A id \in CommandIDs :
          (commands[id] # {} /\ TheCommand(id).state # CommandState_Pending
             /\ execCalls[id] >= 1)
          => emitted[id] = 1
    /\ (lastOp.op = "Execute" /\ lastOp.prior # CommandState_Pending)
          => /\ lastOp.result = {}
             /\ TheCommand(lastOp.id).state = lastOp.prior

\* C14 witness: Execute ran on a command that was Done, after an earlier
\* Execute had returned its event.
C14_Witness ==
    /\ lastOp.op = "Execute"
    /\ lastOp.prior = CommandState_Done
    /\ execCalls[lastOp.id] >= 2
    /\ emitted[lastOp.id] = 1

\* C15: CreateWorkflowInstance is all-or-nothing when Redis commands fail: once
\* no create call for an instance is in flight, a record that is Active with
\* no committed history has its start event pending; and a call that returned
\* an error because XADD or Enqueue failed left no Active record behind.
C15_CreateIsAllOrNothing ==
    \A id \in InstanceIDs :
        /\ (/\ \A c \in CallsFor(id) : call[c].pc = "done"
            /\ KeyHolds(id) = WorkflowStateActive
            /\ historyStream[id] = <<>>)
           => StartEvents(pendingEvents[id]) >= 1
        /\ \A c \in CallsFor(id) :
              call[c].result \in {ErrCouldNotCreateStream, ErrCouldNotQueue}
              => KeyHolds(id) # WorkflowStateActive

\* C16: the step in which a CreateWorkflowInstance call fails with the
\* duplicate error changes nothing in Redis: the instance record, the pending
\* events, the history and the workflow queue are what they were.
C16_DuplicateCreateChangesNothing ==
    [][\A c \in Callers :
          (call'[c].result = ErrAlreadyExists /\ call[c].result # ErrAlreadyExists)
          => /\ instanceKey' = instanceKey
             /\ pendingEvents' = pendingEvents
             /\ historyStream' = historyStream
             /\ workflowQueue' = workflowQueue]_vars

\* C16 witness: a create was refused on an instance that had continued as new,
\* and the record is still the first creator's, still ContinuedAsNew.
C16_Witness ==
    \E c \in Callers :
        /\ call[c].result = ErrAlreadyExists
        /\ call[c].found = WorkflowStateContinuedAsNew
        /\ KeyHolds(call[c].id) = WorkflowStateContinuedAsNew
        /\ \A s \in instanceKey[call[c].id] : Unmarshal(s).instance.execution_id # c
        /\ workflowQueue[call[c].id] = 0

\* C17: GetWorkflowInstanceState of an instance that has no record returns an
\* error, and a wait whose poll got an error has returned 'getting workflow
\* state' at that poll: it polled once, waited for nothing and never reached
\* the timeout.
C17_LookupFailureEndsWait ==
    /\ \A id \in InstanceIDs :
          instanceKey[id] = {} => GetWorkflowInstanceState(id).err # ErrNil
    /\ \A s \in lastPoll :
          s.err # ErrNil
          => /\ wpc = "done"
             /\ wResult = "getting workflow state"
             /\ polls = 1
             /\ elapsed = 0
             /\ draws = 0
    /\ (wInstance \in InstanceIDs /\ instanceKey[wInstance] = {} /\ polls >= 1)
          => wResult = "getting workflow state"

\* C17 witness: a wait with the default 20 s timeout on an instance that was
\* never created returned the lookup error after one poll.
C17_Witness ==
    /\ wResult = "getting workflow state"
    /\ instanceKey[wInstance] = {}
    /\ wArg = 0
    /\ polls = 1
    /\ elapsed = 0

====
